---- MODULE Spec2Model ----
(***************************************************************************)
(* A model of app.py, the Streamlit e-commerce dashboard.  Streamlit runs  *)
(* the whole script again on every widget interaction, so one action of    *)
(* the model is one run of the script from line 15 to the end of the tab   *)
(* that is selected.  The state is what survives a run (the cached data,   *)
(* the widget values and st.session_state) together with what the last run *)
(* computed and showed (the rfm frame, the segment tables, the slider and  *)
(* the date-filtered frame) and the exception that ended it, if any.       *)
(*                                                                         *)
(* Numbers: InvoiceDate is a count of ticks, TicksPerDay ticks to a day.   *)
(* TotalSales and Monetary are integers.  Quantiles are kept exact: the    *)
(* q+1 bin edges of pd.qcut(x, q) are held multiplied by q, and a value x  *)
(* is compared with an edge as q*x.                                        *)
(***************************************************************************)
EXTENDS Integers, Sequences, FiniteSets, TLC

VARIABLES data, selected_country, tab, session_state, error,
          rfm, columns, categories, segment_counts, sales_by_segment,
          slider, filtered_time_data, daily_sales

vars == <<data, selected_country, tab, session_state, error,
          rfm, columns, categories, segment_counts, sales_by_segment,
          slider, filtered_time_data, daily_sales>>

---------------------------------------------------------------------------
(* Bounds of the model *)

MaxCust == 4
MaxDay == 3
MaxRows == 2
LastDate == 2
TicksPerDay == 2

InvoiceCounts == 1..3
Countries == {"A", "B"}

---------------------------------------------------------------------------
(* Values *)

\* pandas' missing value: NaN in a column or a score, NaT for a date.
NaN == -1

Tabs == {"Data Exploration", "Sales Trends", "Product Performance",
         "Country Insights", "RFM Analysis"}

\* The sequence f with every element evaluated: the value of a column or a
\* frame once it has been computed.
Listed(f) == f \o <<>>

Range(s) == {s[i] : i \in DOMAIN s}

Max(S) == CHOOSE m \in S : \A x \in S : x <= m
Min(S) == CHOOSE m \in S : \A x \in S : m <= x

\* Series.max() / Series.min(): NaT (NaN) of an empty series.
SeriesMax(s) == IF Len(s) = 0 THEN NaN ELSE Max(Range(s))
SeriesMin(s) == IF Len(s) = 0 THEN NaN ELSE Min(Range(s))

\* Timestamp.date() and pd.Timestamp(date): the date of an instant, and the
\* instant a date converts to, which is its midnight.
DateOf(t) == IF t = NaN THEN NaN ELSE t \div TicksPerDay
Timestamp(d) == d * TicksPerDay

\* Series.sum(): the sum of a sequence of numbers, NaN skipped.
RECURSIVE SeqSum(_)
SeqSum(s) ==
    IF Len(s) = 0 THEN 0
    ELSE (IF Head(s) = NaN THEN 0 ELSE Head(s)) + SeqSum(Tail(s))

\* The elements of a finite set of integers, ascending.
RECURSIVE SortedSeqOf(_)
SortedSeqOf(S) ==
    IF S = {} THEN <<>> ELSE <<Min(S)>> \o SortedSeqOf(S \ {Min(S)})

\* np.sort of a sequence of numbers (duplicates kept).
Sorted(s) ==
    Listed([i \in 1..Len(s) |->
        CHOOSE v \in Range(s) :
            /\ Cardinality({j \in DOMAIN s : s[j] < v}) < i
            /\ i <= Cardinality({j \in DOMAIN s : s[j] <= v})])

Column(frame, name) == Listed([i \in 1..Len(frame) |-> frame[i][name]])

---------------------------------------------------------------------------
(* pd.qcut *)

\* Series.quantile(np.linspace(0, 1, q + 1)), linear interpolation, each edge
\* multiplied by q; q+1 NaN of an empty series.
Quantiles(x, q) ==
    IF Len(x) = 0 THEN Listed([i \in 1..(q + 1) |-> NaN])
    ELSE LET s == Sorted(x)
             n == Len(x)
         IN  Listed([i \in 1..(q + 1) |->
                LET pos == (n - 1) * (i - 1)
                    lo  == pos \div q
                    rem == pos % q
                IN  IF rem = 0 THEN q * s[lo + 1]
                    ELSE q * s[lo + 1] + rem * (s[lo + 2] - s[lo + 1])])

\* algos.unique: the first occurrence of each value, in order.
Unique(s) ==
    LET firsts == {i \in DOMAIN s : \A j \in 1..(i - 1) : s[j] # s[i]}
    IN  Listed([k \in 1..Cardinality(firsts) |->
                  s[CHOOSE i \in firsts : Cardinality({j \in firsts : j < i}) = k - 1]])

\* A searchsorted with side="right": the edges at or below x.
SearchSortedRight(bins, x) == Cardinality({i \in DOMAIN bins : bins[i] <= x})

\* bins.searchsorted(x, side="left") on ascending bins.
SearchSortedLeft(bins, x) == Cardinality({i \in DOMAIN bins : bins[i] < x})

\* A binning without include_lowest: the first edge falls in no bin.
BinLowestDropped(bins, x) == SearchSortedLeft(bins, x)

\* The bin number of one value: searchsorted, and include_lowest=True puts
\* a value equal to the first edge into bin 1.
BinId(bins, x) ==
    IF x = bins[1] THEN 1 ELSE SearchSortedLeft(bins, x)

\* take_nd(labels, ids - 1): the label of bin id, NaN for an id that is no
\* bin (0, or the number of edges).
Label(bins, labels, id) ==
    IF id = 0 \/ id = Len(bins) THEN NaN ELSE labels[id]

Raised == [raised |-> TRUE, values |-> <<>>]

\* The second half of _bins_to_cuts: ValueError unless there is one label
\* per bin, else the label of each element's bin.  x is compared with the
\* edges as q * x.
LabelBins(x, q, bins, labels) ==
    IF Len(labels) # Len(bins) - 1 THEN Raised
    ELSE [raised |-> FALSE,
          values |-> Listed([i \in 1..Len(x) |->
                        Label(bins, labels, BinId(bins, q * x[i]))])]

\* _bins_to_cuts: duplicate edges raise ValueError under duplicates="raise"
\* and are dropped under duplicates="drop".
BinsToCuts(x, q, edges, labels, duplicates) ==
    IF Len(Unique(edges)) < Len(edges) /\ Len(edges) # 2
    THEN IF duplicates = "raise" THEN Raised
         ELSE LabelBins(x, q, Unique(edges), labels)
    ELSE LabelBins(x, q, edges, labels)

\* pd.qcut(x, q, labels=labels, duplicates=duplicates).  raised: the call
\* ends in ValueError.  values: the label of each element, NaN where the
\* element falls in no bin.
qcut(x, q, labels, duplicates) ==
    BinsToCuts(x, q, Quantiles(x, q), labels, duplicates)

---------------------------------------------------------------------------
(* The script: country filter (lines 21-22) *)

\* ["All"] + data['Country'].unique().tolist()
CountryOptions(d) == {"All"} \cup {d[i].Country : i \in DOMAIN d}

\* data if selected_country == "All" else data[data['Country'] == selected_country]
FilterCountry(d, country) ==
    IF country = "All" THEN d
    ELSE SelectSeq(d, LAMBDA r : r.Country = country)

---------------------------------------------------------------------------
(* The script: RFM Analysis tab (lines 112-165) *)

BaseColumns == {"CustomerID", "Recency", "Frequency", "Monetary"}

\* filtered_data['InvoiceDate'].max() + pd.Timedelta(days=1); NaT stays NaT.
ReferenceDate(fd) ==
    LET last == SeriesMax(Column(fd, "InvoiceDate"))
    IN  IF last = NaN THEN NaN ELSE last + TicksPerDay

\* (reference_date - x.max()).days
RecencyDays(reference_date, dates) ==
    (reference_date - SeriesMax(dates)) \div TicksPerDay

\* filtered_data.groupby('CustomerID').agg({...}).reset_index(): one row per
\* CustomerID that is not NaN, ascending; the score columns do not exist yet
\* and hold NaN here until they are assigned.
RFMMetrics(fd) ==
    LET reference_date == ReferenceDate(fd)
        ids == SortedSeqOf({fd[i].CustomerID : i \in DOMAIN fd} \ {NaN})
    IN  Listed([i \in 1..Len(ids) |->
            LET rows == SelectSeq(fd, LAMBDA r : r.CustomerID = ids[i])
            IN  [CustomerID  |-> ids[i],
                 Recency     |-> RecencyDays(reference_date, Column(rows, "InvoiceDate")),
                 Frequency   |-> Cardinality(Range(Column(rows, "InvoiceNo"))),
                 Monetary    |-> SeqSum(Column(rows, "TotalSales")),
                 R_Score     |-> NaN,
                 F_Score     |-> NaN,
                 M_Score     |-> NaN,
                 RFM_Segment |-> "",
                 RFM_Score   |-> NaN]])

\* Recency labels in the direct order, the most recent labelled 1.
RLabelsAscending == <<1, 2, 3, 4, 5>>

\* Line 127: five recency bins, the most recent labelled 5.
RBins == 5
RLabels == <<5, 4, 3, 2, 1>>

\* Lines 130 and 138: range(5, 1, -1) starts at 5 and stops before 1.
StartBins == 5
StopBins == 1

\* Labels counted from 0, as range(bins) would give.
DynLabelsFromZero(bins) == Listed([i \in 1..bins |-> i - 1])

\* labels=range(1, bins + 1)
DynLabels(bins) == Listed([i \in 1..bins |-> i])

\* The loops of lines 130-135 and 138-143: qcut with bins labels and
\* duplicates="drop", one bin fewer after each ValueError; the column is
\* assigned at the first bins that does not raise and is never assigned when
\* every bins raises.
RECURSIVE DynamicScore(_, _)
Attempt(x, bins, r, next) ==
    IF r.raised THEN next
    ELSE [assigned |-> TRUE, labels |-> DynLabels(bins), values |-> r.values]

DynamicScore(x, bins) ==
    IF bins <= StopBins
    THEN [assigned |-> FALSE, labels |-> <<>>, values |-> <<>>]
    ELSE Attempt(x, bins, qcut(x, bins, DynLabels(bins), "drop"),
                 DynamicScore(x, bins - 1))

\* Series.astype(str) of a score column.
AsStr(v) ==
    CASE v = 0 -> "0"
      [] v = 1 -> "1"
      [] v = 2 -> "2"
      [] v = 3 -> "3"
      [] v = 4 -> "4"
      [] v = 5 -> "5"
      [] OTHER -> "nan"

\* Line 146: the three scores as strings, concatenated R, F, M.
RFMSegment(row) == AsStr(row.R_Score) \o AsStr(row.F_Score) \o AsStr(row.M_Score)

\* Line 147: DataFrame.sum(axis=1), which skips NaN.
RFMScore(row) == SeqSum(<<row.R_Score, row.F_Score, row.M_Score>>)

\* Line 155: Series.value_counts(): each value with the number of rows that
\* hold it.
ValueCounts(col) ==
    [v \in Range(col) |-> Cardinality({i \in DOMAIN col : col[i] = v})]

\* Lines 160-164: per segment the sum and mean of Monetary and the count of
\* CustomerID; the mean is kept as the fraction sum / count.
SalesBySegment(frame) ==
    [seg \in Range(Column(frame, "RFM_Segment")) |->
        LET rows == SelectSeq(frame, LAMBDA r : r.RFM_Segment = seg)
            total == SeqSum(Column(rows, "Monetary"))
        IN  [TotalSales |-> total,
             AverageSalesPerCustomer |-> <<total, Len(rows)>>,
             CustomerCount |-> Len(rows)]]

NoCategories == [R_Score |-> <<>>, F_Score |-> <<>>, M_Score |-> <<>>]
NoCounts == [v \in {} |-> 0]

\* The frame with its score columns as far as they were assigned.
Scored(base, r, f, m) ==
    Listed([i \in 1..Len(base) |->
        [base[i] EXCEPT
            !.R_Score = r.values[i],
            !.F_Score = IF f.assigned THEN f.values[i] ELSE NaN,
            !.M_Score = IF m.assigned THEN m.values[i] ELSE NaN]])

ScoredColumns(f, m) ==
    BaseColumns \cup {"R_Score"}
        \cup (IF f.assigned THEN {"F_Score"} ELSE {})
        \cup (IF m.assigned THEN {"M_Score"} ELSE {})

\* Lines 146-147 on every row.
WithComposites(scored) ==
    Listed([i \in 1..Len(scored) |->
        [scored[i] EXCEPT !.RFM_Segment = RFMSegment(scored[i]),
                          !.RFM_Score = RFMScore(scored[i])]])

\* Lines 155-165 on the finished frame.
Summaries(full, scoredColumns, scoredCategories) ==
    [error |-> "none", rfm |-> full,
     columns |-> scoredColumns \cup {"RFM_Segment", "RFM_Score"},
     categories |-> scoredCategories,
     segment_counts |-> ValueCounts(Column(full, "RFM_Segment")),
     sales_by_segment |-> SalesBySegment(full)]

\* Lines 127-165 given the result r of the qcut of line 127 and the results
\* f and m of the two loops: the frame and tables the run has built when it
\* ends, and the exception that ended it ("none" when it ran to the end).
Combine(base, r, f, m) ==
    IF r.raised
    THEN \* line 127 raises ValueError: Bin edges must be unique
         [error |-> "ValueError", rfm |-> base, columns |-> BaseColumns,
          categories |-> NoCategories,
          segment_counts |-> NoCounts, sales_by_segment |-> NoCounts]
    ELSE IF ~f.assigned \/ ~m.assigned
    THEN \* line 146 raises KeyError: the column was never assigned
         [error |-> "KeyError", rfm |-> Scored(base, r, f, m),
          columns |-> ScoredColumns(f, m),
          categories |-> [R_Score |-> RLabels, F_Score |-> f.labels,
                          M_Score |-> m.labels],
          segment_counts |-> NoCounts, sales_by_segment |-> NoCounts]
    ELSE Summaries(WithComposites(Scored(base, r, f, m)), ScoredColumns(f, m),
                   [R_Score |-> RLabels, F_Score |-> f.labels,
                    M_Score |-> m.labels])

\* Lines 127-165 on the frame of metrics.
ScoreRFM(base) ==
    Combine(base,
            qcut(Column(base, "Recency"), RBins, RLabels, "raise"),
            DynamicScore(Column(base, "Frequency"), StartBins),
            DynamicScore(Column(base, "Monetary"), StartBins))

\* One run of the RFM Analysis tab on filtered_data.
RunRFM(fd) == ScoreRFM(RFMMetrics(fd))

NoRFM ==
    [error |-> "none", rfm |-> <<>>, columns |-> {}, categories |-> NoCategories,
     segment_counts |-> NoCounts, sales_by_segment |-> NoCounts]

---------------------------------------------------------------------------
(* The script: Sales Trends tab (lines 46-64) *)

\* st.session_state.get(key, default)
Get(state, key, default) == IF key \in DOMAIN state THEN state[key] ELSE default

NoSession == [k \in {} |-> 0]
NoSlider == [min_value |-> NaN, max_value |-> NaN, value |-> <<NaN, NaN>>]

\* Lines 50-53: the bounds and the default value handed to st.slider.
SliderArgs(fd, state) ==
    LET lo == DateOf(SeriesMin(Column(fd, "InvoiceDate")))
        hi == DateOf(SeriesMax(Column(fd, "InvoiceDate")))
    IN  [min_value |-> lo, max_value |-> hi,
         value |-> <<Get(state, "start_date", lo), Get(state, "end_date", hi)>>]

\* st.slider raises StreamlitAPIException for a value outside
\* [min_value, max_value].
SliderAccepts(s) ==
    /\ s.min_value # NaN
    /\ \A i \in 1..2 : s.min_value <= s.value[i] /\ s.value[i] <= s.max_value

\* Lines 59-60: the rows between pd.Timestamp(start_date) and
\* pd.Timestamp(end_date).
FilterDates(fd, start_date, end_date) ==
    SelectSeq(fd, LAMBDA r : /\ r.InvoiceDate >= Timestamp(start_date)
                             /\ r.InvoiceDate <= Timestamp(end_date))

\* Line 62: TotalSales summed per calendar date.
DailySales(ftd) ==
    [d \in {DateOf(ftd[i].InvoiceDate) : i \in DOMAIN ftd} |->
        SeqSum(Column(SelectSeq(ftd, LAMBDA r : DateOf(r.InvoiceDate) = d),
                      "TotalSales"))]

\* Lines 57-64 with the range the slider returned.
ShowTrends(args, picked, ftd) ==
    [error |-> "none", slider |-> args,
     session_state |-> [k \in {"start_date", "end_date"} |->
                            IF k = "start_date" THEN picked[1] ELSE picked[2]],
     filtered_time_data |-> ftd, daily_sales |-> DailySales(ftd)]

\* Lines 48-64 with the arguments of st.slider.  moved is the range the
\* user has just dragged the slider to, or <<>> when the run was started by
\* another widget and the slider returns the value it was handed.
SalesTrends(fd, state, args, picked) ==
    IF ~SliderAccepts(args)
    THEN [error |-> "StreamlitAPIException", slider |-> args,
          session_state |-> state,
          filtered_time_data |-> <<>>, daily_sales |-> NoCounts]
    ELSE ShowTrends(args, picked, FilterDates(fd, picked[1], picked[2]))

\* One run of the Sales Trends tab.
RunSalesTrends(fd, state, moved) ==
    SalesTrends(fd, state, SliderArgs(fd, state),
                IF moved = <<>> THEN SliderArgs(fd, state).value ELSE moved)

NoTrends(state) ==
    [error |-> "none", slider |-> NoSlider, session_state |-> state,
     filtered_time_data |-> <<>>, daily_sales |-> NoCounts]

---------------------------------------------------------------------------
(* One run of the script *)

\* What a run leaves behind: the widget values, st.session_state, and what
\* the tab computed.  The other three tabs read filtered_data and show
\* sums and counts of it; they raise nothing and keep nothing.
Show(country, t, trends, analysis) ==
    /\ selected_country' = country
    /\ tab' = t
    /\ session_state' = trends.session_state
    /\ slider' = trends.slider
    /\ filtered_time_data' = trends.filtered_time_data
    /\ daily_sales' = trends.daily_sales
    /\ rfm' = analysis.rfm
    /\ columns' = analysis.columns
    /\ categories' = analysis.categories
    /\ segment_counts' = analysis.segment_counts
    /\ sales_by_segment' = analysis.sales_by_segment
    /\ error' = IF t = "Sales Trends" THEN trends.error ELSE analysis.error
    /\ UNCHANGED data

Script(country, t, moved) ==
    Show(country, t,
         IF t = "Sales Trends"
         THEN RunSalesTrends(FilterCountry(data, country), session_state, moved)
         ELSE NoTrends(session_state),
         IF t = "RFM Analysis"
         THEN RunRFM(FilterCountry(data, country))
         ELSE NoRFM)

\* The user picks another country in the sidebar (line 21).
SelectCountry(country) ==
    /\ country \in CountryOptions(data)
    /\ country # selected_country
    /\ Script(country, tab, <<>>)

\* The user picks another tab in the sidebar (line 26).
Navigate(t) ==
    /\ t \in Tabs
    /\ t # tab
    /\ Script(selected_country, t, <<>>)

\* The user drags the date-range slider of the Sales Trends tab (line 48).
MoveSlider(start_date, end_date) ==
    /\ tab = "Sales Trends"
    /\ error = "none"
    /\ slider.min_value <= start_date
    /\ start_date <= end_date
    /\ end_date <= slider.max_value
    /\ <<start_date, end_date>> # <<session_state["start_date"], session_state["end_date"]>>
    /\ Script(selected_country, tab, <<start_date, end_date>>)

---------------------------------------------------------------------------
(* The tables the script is run on *)

\* Every row has its own invoice here and a TotalSales of its position.
AppKeys == [CustomerID : {NaN, 1}, Country : Countries,
            InvoiceDate : 0..((LastDate + 1) * TicksPerDay - 1)]

AppKeyCode(k) ==
    ((k.CustomerID + 1) * 2 + (IF k.Country = "A" THEN 0 ELSE 1))
        * ((LastDate + 1) * TicksPerDay) + k.InvoiceDate

\* The tables of one to MaxRows rows, in every combination of customer
\* (or none), country and instant; rows in a fixed order, which no
\* operation of the script depends on.
AppTables ==
    UNION {
        { [i \in 1..n |-> [CustomerID  |-> f[i].CustomerID,
                           Country     |-> f[i].Country,
                           InvoiceNo   |-> i,
                           InvoiceDate |-> f[i].InvoiceDate,
                           TotalSales  |-> i]] :
            f \in { g \in [1..n -> AppKeys] :
                      \A i \in 1..(n - 1) : AppKeyCode(g[i]) <= AppKeyCode(g[i + 1]) } } :
        n \in 1..MaxRows }

\* The purchase history of one customer: the day of the last invoice and
\* the number of invoices, each of one line.
Profiles == [day : 0..MaxDay, invoices : InvoiceCounts]

ProfileCode(p) == p.day * 10 + p.invoices

\* The one purchase instant of a day, at a time of day that varies by day.
InvoiceTime(day) == day * TicksPerDay + (day % TicksPerDay)

\* The rows of customer c: invoice j (0 the last) is made j ticks before the
\* last one, and every line of the customer sells for 1 or for 2.
CustomerRows(c, p) ==
    Listed([k \in 1..p.invoices |->
        [CustomerID  |-> c,
         Country     |-> "A",
         InvoiceNo   |-> c * 10 + k,
         InvoiceDate |-> Max({0, InvoiceTime(p.day) - (k - 1)}),
         TotalSales  |-> 1 + ((p.day + p.invoices) % 2)]])

\* A second line of the first invoice of the table, and a guest purchase
\* (no CustomerID) in country B that is later than every other row.
SecondLine(rows) ==
    IF Len(rows) = 0 THEN <<>> ELSE <<[rows[1] EXCEPT !.TotalSales = 3]>>

GuestRow ==
    [CustomerID |-> NaN, Country |-> "B", InvoiceNo |-> 0,
     InvoiceDate |-> (MaxDay + 1) * TicksPerDay + 1, TotalSales |-> 1]

RECURSIVE CohortRows(_, _)
CohortRows(f, n) ==
    IF n = 0 THEN <<>> ELSE CohortRows(f, n - 1) \o CustomerRows(n, f[n])

\* The tables of zero to MaxCust customers of country A with every
\* combination of purchase histories, and the guest row.
RFMTables ==
    UNION {
        { LET rows == CohortRows(f, n) IN rows \o SecondLine(rows) \o <<GuestRow>> :
            f \in { g \in [1..n -> Profiles] :
                      \A i \in 1..(n - 1) : ProfileCode(g[i]) <= ProfileCode(g[i + 1]) } } :
        n \in 0..MaxCust }

---------------------------------------------------------------------------
(* Specifications *)

\* The state after the first run of the script: no country filter, the
\* first tab, an empty st.session_state.
FirstRun ==
    /\ selected_country = "All"
    /\ tab = "Data Exploration"
    /\ session_state = NoSession
    /\ error = "none"
    /\ rfm = <<>>
    /\ columns = {}
    /\ categories = NoCategories
    /\ segment_counts = NoCounts
    /\ sales_by_segment = NoCounts
    /\ slider = NoSlider
    /\ filtered_time_data = <<>>
    /\ daily_sales = NoCounts

Init == data \in AppTables /\ FirstRun

InitRFM == data \in RFMTables /\ FirstRun

Next ==
    \/ \E country \in Countries \cup {"All"} : SelectCountry(country)
    \/ \E t \in Tabs : Navigate(t)
    \/ \E start_date, end_date \in 0..LastDate : MoveSlider(start_date, end_date)

\* The runs of the RFM Analysis tab under every country filter.
NextRFM ==
    \/ Navigate("RFM Analysis")
    \/ \E country \in Countries \cup {"All"} :
            tab = "RFM Analysis" /\ SelectCountry(country)

\* The whole dashboard on small tables.
Spec == Init /\ [][Next]_vars

\* The RFM Analysis tab on cohorts of up to MaxCust customers.
SpecRFM == InitRFM /\ [][NextRFM]_vars

---------------------------------------------------------------------------
(* What the properties below speak of *)

ScoreColumns == {"R_Score", "F_Score", "M_Score"}

MetricOf(col) ==
    CASE col = "R_Score" -> "Recency"
      [] col = "F_Score" -> "Frequency"
      [] col = "M_Score" -> "Monetary"

\* The customers of filtered_data: the cohort.
Cohort == {r.CustomerID : r \in Range(FilterCountry(data, selected_country))} \ {NaN}

\* The values of a metric over the frame of the last run.
MetricValues(col) == Column(rfm, MetricOf(col))

\* The bin counts from 5 down to 2 at which the quantile edges of a metric
\* are all distinct.
DistinctBinCounts(col) ==
    {k \in (StopBins + 1)..StartBins :
        /\ Len(rfm) > 0
        /\ Len(Unique(Quantiles(MetricValues(col), k))) = k + 1}

\* The number of bins a score column was cut into.
BinCount(col) == Len(categories[col])

\* Customer i has a score in column col.
Available(i, col) == col \in columns /\ rfm[i][col] # NaN

\* Value v lies in bin j of the k bins of its metric: above edge j and up to
\* edge j + 1, the first bin holding its lower edge too.
InBin(col, k, v, j) ==
    LET edges == Quantiles(MetricValues(col), k)
    IN  \/ edges[j] < k * v /\ k * v <= edges[j + 1]
        \/ j = 1 /\ k * v = edges[1]

RECURSIVE SumOver(_, _)
SumOver(f, S) ==
    IF S = {} THEN 0
    ELSE LET x == CHOOSE y \in S : TRUE IN f[x] + SumOver(f, S \ {x})

RanRFM == tab = "RFM Analysis"

---------------------------------------------------------------------------
(* Properties *)

\* C1: each of Recency, Frequency and Monetary is scored with the same
\* degradation policy: whenever some k from 5 down to 2 gives distinct
\* quantile edges for the metric, the metric is scored with the largest such
\* k and no error escapes the scoring step.
C1_SameDegradationPolicy ==
    RanRFM =>
        \A col \in ScoreColumns :
            DistinctBinCounts(col) # {} =>
                /\ error # "ValueError"
                /\ col \in columns
                /\ BinCount(col) = Max(DistinctBinCounts(col))

\* C2: when the binning of a metric fails at every k from 5 down to 2 the
\* run does not crash: the metric's score is NaN for the customers, their
\* RFM_Segment and RFM_Score are marked incomplete, and the other metrics
\* and the segment summaries are still computed.
C2_UnscorableMetricIsReported ==
    (RanRFM /\ Len(rfm) > 0 /\ \E col \in ScoreColumns : DistinctBinCounts(col) = {}) =>
        /\ error = "none"
        /\ \A col \in ScoreColumns :
                IF DistinctBinCounts(col) = {}
                THEN col \in columns /\ \A i \in DOMAIN rfm : rfm[i][col] = NaN
                ELSE \A i \in DOMAIN rfm : Available(i, col)
        /\ "RFM_Score" \in columns
        /\ \A i \in DOMAIN rfm : rfm[i].RFM_Score = NaN
        /\ DOMAIN sales_by_segment = DOMAIN segment_counts

\* C3: an empty cohort gives an empty result and no exception: no RFM
\* record, no segment summary, zero total sales.
C3_EmptyCohortIsEmptyResult ==
    (RanRFM /\ Cohort = {}) =>
        /\ error = "none"
        /\ rfm = <<>>
        /\ DOMAIN segment_counts = {}
        /\ DOMAIN sales_by_segment = {}
        /\ SeqSum(Column(rfm, "Monetary")) = 0

\* C4: recency scoring is inverse: of two customers the one with fewer
\* recency days never has the lower R_Score, the most recent customers
\* score 5 and the least recent score 1.
C4_RecencyScoreIsInverse ==
    "R_Score" \in columns =>
        /\ \A a, b \in DOMAIN rfm :
                rfm[a].Recency < rfm[b].Recency => rfm[a].R_Score >= rfm[b].R_Score
        /\ \A a \in DOMAIN rfm :
                /\ rfm[a].Recency = SeriesMin(Column(rfm, "Recency")) => rfm[a].R_Score = 5
                /\ rfm[a].Recency = SeriesMax(Column(rfm, "Recency")) => rfm[a].R_Score = 1

C4_Witness ==
    /\ error = "none"
    /\ "R_Score" \in columns
    /\ Len(rfm) = MaxCust
    /\ \E a, b \in DOMAIN rfm :
            /\ rfm[a].Recency < rfm[b].Recency
            /\ rfm[a].R_Score > rfm[b].R_Score
            /\ rfm[b].R_Score > 1

\* C5: frequency and monetary scoring is direct for the bin count k the
\* loop settled on: every score lies in 1..k, a higher value never has a
\* lower score, the lowest values score 1 and the highest score k.
C5_DynamicScoreIsDirect ==
    \A col \in {"F_Score", "M_Score"} :
        col \in columns =>
            /\ BinCount(col) \in (StopBins + 1)..StartBins
            /\ \A a \in DOMAIN rfm :
                    /\ rfm[a][col] \in 1..BinCount(col)
                    /\ rfm[a][MetricOf(col)] = SeriesMin(MetricValues(col))
                            => rfm[a][col] = 1
                    /\ rfm[a][MetricOf(col)] = SeriesMax(MetricValues(col))
                            => rfm[a][col] = BinCount(col)
            /\ \A a, b \in DOMAIN rfm :
                    rfm[a][MetricOf(col)] < rfm[b][MetricOf(col)]
                        => rfm[a][col] <= rfm[b][col]

C5_Witness ==
    /\ error = "none"
    /\ "F_Score" \in columns
    /\ BinCount("F_Score") = 2
    /\ BinCount("M_Score") \in 3..4
    /\ \E a, b \in DOMAIN rfm :
            rfm[a].Frequency < rfm[b].Frequency /\ rfm[a].F_Score < rfm[b].F_Score

\* C6: scores are total: for each metric that was scored, the frame holds
\* every customer of the cohort once, every customer's value lies in exactly
\* one bin and the customer has the score of that bin, so the bins together
\* hold the cohort once; also with fewer than 5 bins.
C6_ScoresAreTotal ==
    \A col \in ScoreColumns :
        col \in columns =>
            /\ {rfm[i].CustomerID : i \in DOMAIN rfm} = Cohort
            /\ Len(rfm) = Cardinality(Cohort)
            /\ \A i \in DOMAIN rfm :
                    /\ Cardinality({j \in 1..BinCount(col) :
                            InBin(col, BinCount(col), rfm[i][MetricOf(col)], j)}) = 1
                    /\ \A j \in 1..BinCount(col) :
                            InBin(col, BinCount(col), rfm[i][MetricOf(col)], j)
                                => rfm[i][col] = categories[col][j]
            /\ SumOver([l \in Range(categories[col]) |->
                            Cardinality({i \in DOMAIN rfm : rfm[i][col] = l})],
                       Range(categories[col])) = Cardinality(Cohort)

C6_Witness ==
    /\ error = "none"
    /\ Len(rfm) = MaxCust
    /\ BinCount("F_Score") < StartBins
    /\ BinCount("M_Score") < StartBins
    /\ BinCount("F_Score") # BinCount("M_Score")

\* C7: RFM_Score is R_Score + F_Score + M_Score for a customer with all
\* three scores, and is marked unavailable (NaN, no partial sum) for a
\* customer that lacks one of them.
C7_RFMScoreIsSumOrUnavailable ==
    RanRFM =>
        \A i \in DOMAIN rfm :
            /\ "RFM_Score" \in columns
            /\ IF \A col \in ScoreColumns : Available(i, col)
               THEN rfm[i].RFM_Score = rfm[i].R_Score + rfm[i].F_Score + rfm[i].M_Score
               ELSE rfm[i].RFM_Score = NaN

C9_DateRangeIsInclusive ==
    [][(tab' = "Sales Trends" /\ error' = "none") =>
            /\ data' = data
            /\ filtered_time_data' =
                SelectSeq(FilterCountry(data', selected_country'),
                    LAMBDA r : /\ session_state'["start_date"] <= DateOf(r.InvoiceDate)
                               /\ DateOf(r.InvoiceDate) <= session_state'["end_date"])]_vars

\* C10: the default range handed to the date slider lies within the
\* slider's bounds, start first, after every sequence of interactions.
C10_SliderDefaultWithinBounds ==
    tab = "Sales Trends" =>
        /\ slider.min_value <= slider.value[1]
        /\ slider.value[1] <= slider.value[2]
        /\ slider.value[2] <= slider.max_value

====
